---------------------------- MODULE Spec2Model ----------------------------
(***************************************************************************)
(* Model of src/main.py: a FastAPI backend with the routes GET /,          *)
(* GET /api/hello, GET /test and POST /run.                                *)
(*                                                                         *)
(* Conventions of the model:                                               *)
(*   - a Python str is a sequence of characters, each character a TLA+     *)
(*     string: an ASCII character is the string of that character, and a   *)
(*     character outside the printable ASCII range is the string of its    *)
(*     code point, "U+00DF"; upper(), strip(), split(), int(), strptime()  *)
(*     and strftime() are computed character by character;                 *)
(*   - a Python int is a record [neg, mag] (sign and decimal magnitude,    *)
(*     most significant digit first, no leading zero): Python ints are     *)
(*     unbounded, and a line number may have hundreds of digits;           *)
(*   - a Python float is an IEEE 754 double, held as sign, mantissa and    *)
(*     exponent, or as an infinity or not-a-number, and its arithmetic is  *)
(*     computed exactly and rounded as the hardware rounds it;             *)
(*   - None is << "None" >>, which is no str of the model, so that a field *)
(*     holding a str, a number or None can be compared with each of them;  *)
(*   - the text of an exception is the tuple of its fixed parts (TLA+      *)
(*     strings) and of the strs formatted into it; the fixed message of a  *)
(*     validator is a TLA+ string.                                         *)
(***************************************************************************)
EXTENDS Integers, Sequences, FiniteSets, TLC

(***************************************************************************)
(* Characters.  Beside ASCII the model knows the characters below, one of  *)
(* each kind the str methods treat in a way of their own.                  *)
(***************************************************************************)
LowerLetters ==
    << "a", "b", "c", "d", "e", "f", "g", "h", "i", "j", "k", "l", "m",
       "n", "o", "p", "q", "r", "s", "t", "u", "v", "w", "x", "y", "z" >>

UpperLetters ==
    << "A", "B", "C", "D", "E", "F", "G", "H", "I", "J", "K", "L", "M",
       "N", "O", "P", "Q", "R", "S", "T", "U", "V", "W", "X", "Y", "Z" >>

DigitChars == << "0", "1", "2", "3", "4", "5", "6", "7", "8", "9" >>

\* LATIN SMALL LETTER SHARP S: its upper case is the two letters SS.
SharpS == "U+00DF"

\* LATIN SMALL LETTER LONG S: its upper case is S, its lower case itself.
LongS == "U+017F"

\* LATIN SMALL LETTER E WITH ACUTE and its capital.
SmallEAcute == "U+00E9"

CapitalEAcute == "U+00C9"

\* ARABIC-INDIC DIGIT THREE: a decimal digit that is not ASCII.
ArabicThree == "U+0663"

\* LINE TABULATION: white space for str.strip() and for int().
VerticalTab == "U+000B"

\* FILE SEPARATOR: white space for str.strip(), not for int().
FileSeparator == "U+001C"

\* NO-BREAK SPACE: white space for both, not ASCII.
NoBreakSpace == "U+00A0"

IndexOf(seq, x) ==
    IF \E i \in 1..Len(seq) : seq[i] = x
    THEN CHOOSE i \in 1..Len(seq) : seq[i] = x /\ \A j \in 1..(i - 1) : seq[j] # x
    ELSE 0

\* c.upper() for the characters it changes: a str, of two characters for
\* the sharp s.
UpperMap ==
    [c \in { LowerLetters[i] : i \in 1..26 } \cup { SharpS, LongS, SmallEAcute } |->
        IF c = SharpS THEN << "S", "S" >>
        ELSE IF c = LongS THEN << "S" >>
        ELSE IF c = SmallEAcute THEN << CapitalEAcute >>
        ELSE << UpperLetters[IndexOf(LowerLetters, c)] >>]

\* c.lower() for the characters it changes.
LowerMap ==
    [c \in { UpperLetters[i] : i \in 1..26 } \cup { CapitalEAcute } |->
        IF c = CapitalEAcute THEN SmallEAcute
        ELSE LowerLetters[IndexOf(UpperLetters, c)]]

\* The value of each decimal digit (Unicode category Nd).
DigitMap ==
    [c \in { DigitChars[i] : i \in 1..10 } \cup { ArabicThree } |->
        IF c = ArabicThree THEN 3 ELSE IndexOf(DigitChars, c) - 1]

UpperChar(c) == IF c \in DOMAIN UpperMap THEN UpperMap[c] ELSE << c >>

LowerChar(c) == IF c \in DOMAIN LowerMap THEN LowerMap[c] ELSE c

\* str.upper(): Unicode aware, so the result may be longer than s.
RECURSIVE StrUpper(_)
StrUpper(s) ==
    IF \A i \in 1..Len(s) : Len(UpperChar(s[i])) = 1
    THEN [i \in 1..Len(s) |-> UpperChar(s[i])[1]]
    ELSE UpperChar(Head(s)) \o StrUpper(Tail(s))

\* str.lower()
StrLower(s) == [i \in 1..Len(s) |-> LowerChar(s[i])]

\* The white space str.strip() removes.
SpaceChars == { " ", "\t", "\n", "\r", "\f", VerticalTab, FileSeparator, NoBreakSpace }

\* The white space int() skips around a number: the ASCII white space of C
\* and the Unicode white space outside ASCII.
IntSpaceChars == { " ", "\t", "\n", "\r", "\f", VerticalTab, NoBreakSpace }

\* A decimal digit, as \d of a str pattern and int() take it.
IsDigit(c) == c \in DOMAIN DigitMap

DigitVal(c) == DigitMap[c]

\* s without its leading characters of the set sp.
LStripBy(s, sp) ==
    IF \A i \in 1..Len(s) : s[i] \in sp THEN << >>
    ELSE LET k == CHOOSE i \in 1..Len(s) :
                      s[i] \notin sp /\ \A j \in 1..(i - 1) : s[j] \in sp
         IN  SubSeq(s, k, Len(s))

\* s without its trailing characters of the set sp.
RStripBy(s, sp) ==
    IF \A i \in 1..Len(s) : s[i] \in sp THEN << >>
    ELSE LET k == CHOOSE i \in 1..Len(s) :
                      s[i] \notin sp /\ \A j \in (i + 1)..Len(s) : s[j] \in sp
         IN  SubSeq(s, 1, k)

\* str.strip()
Strip(s) == RStripBy(LStripBy(s, SpaceChars), SpaceChars)

\* str.split(sep) for a one-character separator: always at least one part.
RECURSIVE Split(_, _)
Split(s, sep) ==
    IF \A i \in 1..Len(s) : s[i] # sep
    THEN << s >>
    ELSE LET k == IndexOf(s, sep)
         IN  << SubSeq(s, 1, k - 1) >> \o Split(SubSeq(s, k + 1, Len(s)), sep)

\* sep.join(parts)
RECURSIVE Join(_, _)
Join(parts, sep) ==
    IF parts = << >> THEN << >>
    ELSE IF Len(parts) = 1 THEN parts[1]
    ELSE parts[1] \o << sep >> \o Join(Tail(parts), sep)

\* c * n
Repeat(c, n) == [i \in 1..n |-> c]

Min(a, b) == IF a < b THEN a ELSE b

Max(a, b) == IF a > b THEN a ELSE b

\* The escape repr() writes a character as, for those it does not print.
Escapes ==
    [c \in { "\t", "\n", "\r", "\f", VerticalTab, FileSeparator, NoBreakSpace } |->
        CASE c = "\t" -> << "\\", "t" >>
          [] c = "\n" -> << "\\", "n" >>
          [] c = "\r" -> << "\\", "r" >>
          [] c = "\f" -> << "\\", "x", "0", "c" >>
          [] c = VerticalTab -> << "\\", "x", "0", "b" >>
          [] c = FileSeparator -> << "\\", "x", "1", "c" >>
          [] c = NoBreakSpace -> << "\\", "x", "a", "0" >>]

\* The quote repr(s) is written in: the double one when s holds a single
\* quote and no double one.
QuoteOf(s) ==
    IF (\E i \in 1..Len(s) : s[i] = "'") /\ (\A i \in 1..Len(s) : s[i] # "\"")
    THEN "\"" ELSE "'"

\* What repr() writes the character c as, between quotes q.
EscapedChar(c, q) ==
    IF c \in DOMAIN Escapes THEN Escapes[c]
    ELSE IF c = "\\" \/ c = q THEN << "\\", c >>
    ELSE << c >>

\* The characters of s as repr() writes them between quotes q, one half of
\* s after the other.
RECURSIVE Escaped(_, _)
Escaped(s, q) ==
    IF \A i \in 1..Len(s) : EscapedChar(s[i], q) = << s[i] >> THEN s
    ELSE IF Len(s) = 1 THEN EscapedChar(s[1], q)
    ELSE Escaped(SubSeq(s, 1, Len(s) \div 2), q)
             \o Escaped(SubSeq(s, Len(s) \div 2 + 1, Len(s)), q)

\* repr(s): s between quotes, the characters that are not printable, the
\* backslash and the quote escaped.
Repr(s) == << QuoteOf(s) >> \o Escaped(s, QuoteOf(s)) \o << QuoteOf(s) >>

NoneValue == << "None" >>

\* An exception raised with the text msg, and whether x is one.
Raise(msg) == << "Error", msg >>

Raised(x) == x[1] = "Error"

(***************************************************************************)
(* datetime.strptime(s, "%d%b%Y") and datetime.strftime("%d%b%Y").         *)
(*                                                                         *)
(* _strptime compiles the format to the regular expression                 *)
(*   (?P<d>3[0-1]|[1-2]\d|0[1-9]|[1-9]| [1-9])(?P<b>jan|...|dec)(?P<Y>\d\d\d\d) *)
(* matched ignoring case from the start of the string.  It raises          *)
(* ValueError when the string does not match, when text is left over after *)
(* the match, when the month found is not an abbreviation once in lower    *)
(* case, and when the date does not exist.                                 *)
(***************************************************************************)
MonthAbbr ==
    << << "J", "a", "n" >>, << "F", "e", "b" >>, << "M", "a", "r" >>,
       << "A", "p", "r" >>, << "M", "a", "y" >>, << "J", "u", "n" >>,
       << "J", "u", "l" >>, << "A", "u", "g" >>, << "S", "e", "p" >>,
       << "O", "c", "t" >>, << "N", "o", "v" >>, << "D", "e", "c" >> >>

\* [1-9]
IsOneToNine(c) == c \in { "1", "2", "3", "4", "5", "6", "7", "8", "9" }

\* The day alternatives of the regular expression, tried on a prefix.
DayMatches(p) ==
    \/ /\ Len(p) = 2
       /\ \/ p[1] = "3" /\ p[2] \in {"0", "1"}
          \/ p[1] \in {"1", "2"} /\ IsDigit(p[2])
          \/ p[1] = "0" /\ IsOneToNine(p[2])
          \/ p[1] = " " /\ IsOneToNine(p[2])
    \/ /\ Len(p) = 1
       /\ IsOneToNine(p[1])

\* The abbreviations in lower case, as the pattern and the lookup have them.
MonthAbbrLower == [i \in 1..12 |-> StrLower(MonthAbbr[i])]

\* The character a letter of the pattern matches when case is ignored: the
\* long s matches s.
FoldCase(c) == IF c = LongS THEN "s" ELSE LowerChar(c)

MonthMatches(p) == IndexOf(MonthAbbrLower, [i \in 1..Len(p) |-> FoldCase(p[i])]) > 0

\* The index of found.lower() in the list of abbreviations, 0 if not in it.
MonthIndex(p) == IndexOf(MonthAbbrLower, StrLower(p))

YearMatches(p) == Len(p) = 4 /\ \A i \in 1..4 : IsDigit(p[i])

RECURSIVE DigitsValue(_)
DigitsValue(p) ==
    IF p = << >> THEN 0
    ELSE 10 * DigitsValue(SubSeq(p, 1, Len(p) - 1)) + DigitVal(p[Len(p)])

IsLeap(y) == y % 4 = 0 /\ (y % 100 # 0 \/ y % 400 = 0)

DaysInMonth(y, m) ==
    IF m = 2 THEN (IF IsLeap(y) THEN 29 ELSE 28)
    ELSE IF m \in {4, 6, 9, 11} THEN 30 ELSE 31

\* A datetime value.
Date(y, m, d) == << "datetime", y, m, d >>

\* Whether the pattern matches s from its start with a day of n characters.
MatchesAt(s, n) ==
    /\ Len(s) >= n + 7
    /\ DayMatches(SubSeq(s, 1, n))
    /\ MonthMatches(SubSeq(s, n + 1, n + 3))
    /\ YearMatches(SubSeq(s, n + 4, n + 7))

\* The datetime of the groups found, the day being the first n characters.
Converted(s, n) ==
    LET b == SubSeq(s, n + 1, n + 3)
        y == DigitsValue(SubSeq(s, n + 4, n + 7))
        m == MonthIndex(b)
        d == DigitsValue(LStripBy(SubSeq(s, 1, n), IntSpaceChars))
    IN  IF m = 0 THEN Raise(<< Repr(StrLower(b)), " is not in list" >>)
        ELSE IF y < 1 THEN Raise(<< "year 0 is out of range" >>)
        ELSE IF d > DaysInMonth(y, m) THEN Raise(<< "day is out of range for month" >>)
        ELSE Date(y, m, d)

\* datetime.strptime(s, "%d%b%Y")
Strptime(s) ==
    LET n == IF MatchesAt(s, 2) THEN 2 ELSE IF MatchesAt(s, 1) THEN 1 ELSE 0
    IN  IF n = 0
        THEN Raise(<< "time data ", Repr(s), " does not match format '%d%b%Y'" >>)
        ELSE IF Len(s) > n + 7
        THEN Raise(<< "unconverted data remains: ", SubSeq(s, n + 8, Len(s)) >>)
        ELSE Converted(s, n)

RECURSIVE NatToStr(_)
NatToStr(n) ==
    IF n < 10 THEN << DigitChars[n + 1] >>
    ELSE NatToStr(n \div 10) \o << DigitChars[(n % 10) + 1] >>

\* date.strftime("%d%b%Y") in the C locale: a two-digit day, the month's
\* abbreviation with only its first letter in upper case, the year in decimal.
Strftime(dt) ==
    (IF dt[4] < 10 THEN << "0" >> ELSE << >>) \o NatToStr(dt[4])
        \o MonthAbbr[dt[3]] \o NatToStr(dt[2])

(***************************************************************************)
(* int(s).  White space around the number is skipped; then come an         *)
(* optional sign and decimal digits, with single underscores allowed       *)
(* between digits.  The digits are scanned up to the first character that  *)
(* is neither a digit nor an underscore: a malformed run of digits is an   *)
(* invalid literal, a run of more than 4300 digits exceeds the limit of    *)
(* the conversion, and text left after the run is an invalid literal.      *)
(* The value is kept as sign and magnitude digits.                         *)
(***************************************************************************)
\* sys.int_info.default_max_str_digits
IntMaxStrDigits == 4300

DropLeadingZeros(d) ==
    IF \A i \in 1..Len(d) : d[i] = 0 THEN << >>
    ELSE LET k == CHOOSE i \in 1..Len(d) : d[i] # 0 /\ \A j \in 1..(i - 1) : d[j] = 0
         IN  SubSeq(d, k, Len(d))

IsDigitOrUnderscore(c) == IsDigit(c) \/ c = "_"

\* The longest prefix of digits and underscores.
DigitRun(t) ==
    LET k == CHOOSE i \in 1..(Len(t) + 1) :
                 /\ i = Len(t) + 1 \/ ~IsDigitOrUnderscore(t[i])
                 /\ \A j \in 1..(i - 1) : IsDigitOrUnderscore(t[j])
    IN  SubSeq(t, 1, k - 1)

\* Digits, with single underscores only between two of them.
WellFormedRun(r) ==
    /\ r # << >>
    /\ IsDigit(r[1]) /\ IsDigit(r[Len(r)])
    /\ \A i \in 1..(Len(r) - 1) : ~(r[i] = "_" /\ r[i + 1] = "_")

NoInt(msg) == [ok |-> FALSE, neg |-> FALSE, mag |-> << >>, msg |-> msg]

\* The first n characters of s: what a format of precision n writes of it.
Precision(s, n) == SubSeq(s, 1, Min(n, Len(s)))

\* The ValueError of a text that is no number.  The interpreter writes the
\* message with the format %.200R: the first 200 characters of repr(s).
InvalidLiteral(s) ==
    NoInt(<< "invalid literal for int() with base 10: ", Precision(Repr(s), 200) >>)

ExceedsLimit(n) ==
    NoInt(<< "Exceeds the limit (4300 digits) for integer string conversion: value has ",
             NatToStr(n),
             " digits; use sys.set_int_max_str_digits() to increase the limit" >>)

\* The int of a well-formed run of digits that is the whole number.
IntFromDigits(neg, digits) ==
    LET mag == DropLeadingZeros([i \in 1..Len(digits) |-> DigitVal(digits[i])])
    IN  [ok |-> TRUE, neg |-> neg /\ mag # << >>, mag |-> mag, msg |-> << >>]

\* The interpreters the server can run on, by what int() does with a text
\* that has both more digits than it converts and characters after them:
\* up to Python 3.11 the digits are counted first, later interpreters refuse
\* the characters first.
Interpreters == { "3.11", "3.13" }

\* int(s) on the interpreter py: [ok, neg, mag, msg], msg being the text of
\* the ValueError.
PyInt(s, py) ==
    LET t      == RStripBy(LStripBy(s, IntSpaceChars), IntSpaceChars)
        signed == t # << >> /\ Head(t) \in {"+", "-"}
        body   == IF signed THEN Tail(t) ELSE t
        run    == DigitRun(body)
        digits == SelectSeq(run, IsDigit)
    IN  IF ~WellFormedRun(run) THEN InvalidLiteral(s)
        ELSE IF py = "3.11" /\ Len(digits) > IntMaxStrDigits
        THEN ExceedsLimit(Len(digits))
        ELSE IF Len(run) < Len(body) THEN InvalidLiteral(s)
        ELSE IF Len(digits) > IntMaxStrDigits THEN ExceedsLimit(Len(digits))
        ELSE IntFromDigits(signed /\ Head(t) = "-", digits)

\* The int as a value of the model, without the outcome of the conversion,
\* which is the same on every interpreter.
IntOf(s) == LET n == PyInt(s, "3.11") IN [neg |-> n.neg, mag |-> n.mag]

(***************************************************************************)
(* The random module.  Its generator is one module-level object shared by  *)
(* every caller in the process.  random.seed(42) puts it at the start of   *)
(* the seed's output stream and every random.random() takes the next       *)
(* output, so its state is held as [seeded, seed, pos]: the seed last      *)
(* given and the number of outputs taken since.  Before any call to        *)
(* random.seed the generator is seeded from the operating system           *)
(* (seeded = FALSE).                                                       *)
(*                                                                         *)
(* An output of random.random() is k / 2^53 for a natural number k below   *)
(* 2^53.  MT42[i] is the k of the i-th output after random.seed(42), as a  *)
(* natural number of the arithmetic below.                                 *)
(***************************************************************************)
MT42 ==
    << << 197, 24804, 22716, 163 >>, << 22787, 13806, 13197, 6 >>, << 17646, 4597, 13353, 70 >>,
       << 25351, 12573, 4651, 57 >>, << 29822, 10449, 17584, 188 >>, << 29082, 24044, 7702, 173 >>,
       << 29840, 21596, 13040, 228 >>, << 10769, 25785, 8399, 22 >>, << 2979, 24641, 392, 108 >>,
       << 29093, 6335, 20581, 7 >>, << 16040, 8668, 31828, 55 >>, << 30617, 13520, 12155, 129 >>,
       << 14086, 27773, 25991, 6 >>, << 13374, 3514, 29571, 50 >>, << 10274, 26012, 12137, 166 >>,
       << 5786, 15195, 16548, 139 >>, << 32116, 31639, 14181, 56 >>, << 24070, 27193, 27918, 150 >>,
       << 10717, 26356, 7018, 207 >>, << 1228, 17938, 21747, 1 >>, << 32187, 26950, 9493, 206 >>,
       << 16852, 23393, 23713, 178 >>, << 2638, 6713, 3412, 87 >>, << 31541, 18872, 26304, 39 >> >>

RngAtImport == [seeded |-> FALSE, seed |-> 0, pos |-> 0]

\* As RandomSeed, but only for a generator never seeded before.
RandomSeedOnce(state, a) ==
    IF state.seeded THEN state ELSE [seeded |-> TRUE, seed |-> a, pos |-> 0]

\* random.seed(a): the shared generator restarts the stream of seed a.
RandomSeed(state, a) == [seeded |-> TRUE, seed |-> a, pos |-> 0]

(***************************************************************************)
(* Natural numbers of any size, for the mantissas of floats and for line   *)
(* numbers of hundreds of digits: a number is the sequence of its digits   *)
(* in base 2^15, the least significant first and the last one not 0, so    *)
(* that 0 is << >>.                                                        *)
(***************************************************************************)
LimbBits == 15

Base == 32768

Limb(a, i) == IF i <= Len(a) THEN a[i] ELSE 0

\* a without its most significant digits that are 0.
Trim(a) ==
    IF \A i \in 1..Len(a) : a[i] = 0 THEN << >>
    ELSE SubSeq(a, 1, CHOOSE i \in 1..Len(a) :
                          a[i] # 0 /\ \A j \in (i + 1)..Len(a) : a[j] = 0)

\* The number n of the model checker's integers.
RECURSIVE BigFromNat(_)
BigFromNat(n) == IF n = 0 THEN << >> ELSE << n % Base >> \o BigFromNat(n \div Base)

\* -1, 0, 1 as a < b, a = b, a > b.
BigCmp(a, b) ==
    IF Len(a) # Len(b) THEN (IF Len(a) < Len(b) THEN -1 ELSE 1)
    ELSE IF a = b THEN 0
    ELSE LET k == CHOOSE i \in 1..Len(a) :
                      a[i] # b[i] /\ \A j \in (i + 1)..Len(a) : a[j] = b[j]
         IN  IF a[k] < b[k] THEN -1 ELSE 1

\* a + b, for sequences of digits below Base whatever their last ones.  A
\* carry enters position i when a position below makes one and every
\* position between passes it on.
BigAdd(a, b) ==
    IF a = << >> THEN Trim(b)
    ELSE IF b = << >> THEN Trim(a)
    ELSE
    LET n == Max(Len(a), Len(b)) + 1
        s == SubSeq([i \in 1..n |-> Limb(a, i) + Limb(b, i)], 1, n)
        Carry(i) == \E j \in 1..(i - 1) :
                        s[j] >= Base /\ \A k \in (j + 1)..(i - 1) : s[k] = Base - 1
    IN  Trim([i \in 1..n |-> (s[i] + (IF Carry(i) THEN 1 ELSE 0)) % Base])

\* a - b, for a >= b: the borrows go as the carries of a sum.
BigSub(a, b) ==
    LET n == Len(a)
        d == SubSeq([i \in 1..n |-> a[i] - Limb(b, i)], 1, n)
        Borrow(i) == \E j \in 1..(i - 1) :
                         d[j] < 0 /\ \A k \in (j + 1)..(i - 1) : d[k] = 0
    IN  Trim([i \in 1..n |-> (d[i] - (IF Borrow(i) THEN 1 ELSE 0) + Base) % Base])

\* a * k + c, for k and c below Base: the low and the high digits of the
\* products a[i] * k are two numbers to add.
MulAdd(a, k, c) ==
    IF a = << >> THEN BigFromNat(c)
    ELSE
    LET n == Len(a)
        p == SubSeq([i \in 1..n |-> a[i] * k], 1, n)
    IN  BigAdd(BigAdd([i \in 1..n |-> p[i] % Base],
                      [i \in 1..(n + 1) |-> IF i = 1 THEN 0 ELSE p[i - 1] \div Base]),
               << c >>)

\* f[lo] + ... + f[hi]
RECURSIVE SumOver(_, _, _)
SumOver(f, lo, hi) ==
    IF lo > hi THEN 0
    ELSE IF lo = hi THEN f[lo]
    ELSE SumOver(f, lo, (lo + hi) \div 2) + SumOver(f, (lo + hi) \div 2 + 1, hi)

\* a * b: column k sums the low digits of the products a[i] * b[j] with
\* i + j = k + 1 and the high digits of those with i + j = k, and the digits
\* and the carries of the columns are two numbers to add.
BigMul(a, b) ==
    IF a = << >> \/ b = << >> THEN << >>
    ELSE
    LET n == Len(a) + Len(b)
        Low(k)  == SumOver([i \in 1..Len(a) |->
                              IF k + 1 - i \in 1..Len(b)
                              THEN (a[i] * b[k + 1 - i]) % Base ELSE 0], 1, Len(a))
        High(k) == SumOver([i \in 1..Len(a) |->
                              IF k - i \in 1..Len(b)
                              THEN (a[i] * b[k - i]) \div Base ELSE 0], 1, Len(a))
        col == SubSeq([k \in 1..n |-> Low(k) + High(k)], 1, n)
    IN  BigAdd([k \in 1..n |-> col[k] % Base],
               [k \in 1..(n + 1) |-> IF k = 1 THEN 0 ELSE col[k - 1] \div Base])

\* a \div k and a % k, for k below Base and a of a few digits: the digit
\* a[1] after the remainder of the digits above it.
RECURSIVE DivSmall(_, _)
DivSmall(a, k) ==
    IF a = << >> THEN [q |-> << >>, r |-> 0]
    ELSE LET above == DivSmall(Tail(a), k)
             cur   == above.r * Base + a[1]
         IN  [q |-> Trim(<< cur \div k >> \o above.q), r |-> cur % k]

\* The number of binary digits of a.
BitLen(a) ==
    IF a = << >> THEN 0
    ELSE LimbBits * (Len(a) - 1)
             + (CHOOSE k \in 1..LimbBits : 2^(k - 1) <= a[Len(a)] /\ a[Len(a)] < 2^k)

\* a * 2^n
ShiftLeft(a, n) ==
    IF a = << >> THEN << >>
    ELSE [i \in 1..(n \div LimbBits) |-> 0] \o MulAdd(a, 2^(n % LimbBits), 0)

\* a \div 2^n, and whether a is more than that times 2^n.
FloorShift(a, n) ==
    LET k    == Min(n \div LimbBits, Len(a))
        r    == n % LimbBits
        rest == SubSeq(a, k + 1, Len(a))
    IN  [q |-> Trim([i \in 1..Len(rest) |->
                        rest[i] \div 2^r + (Limb(rest, i + 1) % 2^r) * 2^(LimbBits - r)]),
         inexact |-> Limb(rest, 1) % 2^r # 0 \/ \E i \in 1..k : a[i] # 0]

\* (a + f) / 2^n rounded to the nearest natural number, to the even one of
\* two equally near, where f is 0, or with sticky a fraction between 0 and 1.
RoundShift(a, n, sticky) ==
    IF n = 0 THEN a
    ELSE LET f    == FloorShift(a, n - 1)
             half == FloorShift(f.q, 1).q
         IN  IF Limb(f.q, 1) % 2 = 1
                    /\ (f.inexact \/ sticky \/ Limb(half, 1) % 2 = 1)
             THEN BigAdd(half, << 1 >>)
             ELSE half

\* 10^n
RECURSIVE PowerOfTen(_)
PowerOfTen(n) ==
    IF n <= 4 THEN BigFromNat(10^n)
    ELSE BigMul(PowerOfTen(n - n \div 2), PowerOfTen(n \div 2))

\* The number of the decimal digits d, the most significant first: that of
\* the first half times a power of ten, plus that of the second half.
RECURSIVE BigFromDigits(_)
BigFromDigits(d) ==
    IF Len(d) <= 4
    THEN BigFromNat(SumOver([i \in 1..Len(d) |-> d[i] * 10^(Len(d) - i)], 1, Len(d)))
    ELSE LET low == Len(d) \div 2
         IN  BigAdd(BigMul(BigFromDigits(SubSeq(d, 1, Len(d) - low)), PowerOfTen(low)),
                    BigFromDigits(SubSeq(d, Len(d) - low + 1, Len(d))))

(***************************************************************************)
(* Floats.  A Python float is an IEEE 754 double and every operation gives *)
(* the exact result rounded to the nearest double, to the one of even      *)
(* mantissa of two equally near.  A finite float is                        *)
(* << "float", sign, e, m >>, the number (-1)^sign * m * 2^e with m of     *)
(* exactly 53 binary digits, or m = << >> and e = 0 for 0.0 and -0.0;      *)
(* the infinities are << "inf", sign >> and not-a-number is << "nan" >>.   *)
(* The numbers of run_job are 0 or at least 0.01 in magnitude, so no       *)
(* result is below the normal range.                                       *)
(***************************************************************************)
MantBits == 53

\* The exponent of the greatest finite doubles, as m * 2^e.
MaxExp == 971

Zero(sign) == << "float", sign, 0, << >> >>

Inf(sign) == << "inf", sign >>

NaN == << "nan" >>

IsFinite(x) == x[1] = "float"

IsZero(x) == IsFinite(x) /\ x[4] = << >>

\* The double nearest to n * 2^e, or with sticky to a number between
\* n * 2^e and (n + 1) * 2^e, n then having 55 binary digits or more.
RoundToFloat(sign, n, e, sticky) ==
    IF n = << >> THEN Zero(sign)
    ELSE LET len == BitLen(n)
             \* the double of mantissa m and exponent x, an infinity beyond
             \* the greatest
             Packed(s, m, x) == IF x > MaxExp THEN Inf(s) ELSE << "float", s, x, m >>
         IN  IF len <= MantBits
             THEN Packed(sign, ShiftLeft(n, MantBits - len), e - (MantBits - len))
             ELSE LET q == RoundShift(n, len - MantBits, sticky)
                  IN  IF BitLen(q) > MantBits
                      THEN Packed(sign, FloorShift(q, 1).q, e + len - MantBits + 1)
                      ELSE Packed(sign, q, e + len - MantBits)

\* float(n) for a natural number n of the model checker's integers.
FromNat(n) == RoundToFloat(0, BigFromNat(n), 0, FALSE)

\* The double nearest to n / d, n a natural number of any size and d below
\* Base (int / int, and the value of a decimal literal): n is brought to 70
\* binary digits, so that the quotient has 55 or more.
DivToFloat(sign, n, d) ==
    LET s == 70 - BitLen(n)
        f == IF s < 0 THEN FloorShift(n, -s) ELSE [q |-> ShiftLeft(n, s), inexact |-> FALSE]
        t == DivSmall(f.q, d)
    IN  RoundToFloat(sign, t.q, -s, t.r # 0 \/ f.inexact)

\* x * y
FMul(x, y) ==
    LET sign == (x[2] + y[2]) % 2
    IN  IF x = NaN \/ y = NaN THEN NaN
        ELSE IF ~IsFinite(x) \/ ~IsFinite(y)
        THEN (IF IsZero(x) \/ IsZero(y) THEN NaN ELSE Inf(sign))
        ELSE RoundToFloat(sign, BigMul(x[4], y[4]), x[3] + y[3], FALSE)

\* x + y: of two finite floats that are not 0, the sum or the difference of
\* the mantissas brought to the lesser exponent.
FAdd(x, y) ==
    IF x = NaN \/ y = NaN THEN NaN
    ELSE IF ~IsFinite(x) THEN (IF ~IsFinite(y) /\ y[2] # x[2] THEN NaN ELSE x)
    ELSE IF ~IsFinite(y) THEN y
    ELSE IF IsZero(x) /\ IsZero(y) THEN Zero(IF x[2] = 1 /\ y[2] = 1 THEN 1 ELSE 0)
    ELSE IF IsZero(x) THEN y
    ELSE IF IsZero(y) THEN x
    ELSE LET e == Min(x[3], y[3])
             a == ShiftLeft(x[4], x[3] - e)
             b == ShiftLeft(y[4], y[3] - e)
             c == BigCmp(a, b)
         IN  IF x[2] = y[2] THEN RoundToFloat(x[2], BigAdd(a, b), e, FALSE)
             ELSE IF c = 0 THEN Zero(0)
             ELSE IF c > 0 THEN RoundToFloat(x[2], BigSub(a, b), e, FALSE)
             ELSE RoundToFloat(y[2], BigSub(b, a), e, FALSE)

\* x - y = x + (-y)
FSub(x, y) ==
    FAdd(x, IF x = NaN \/ y = NaN THEN NaN
            ELSE IF ~IsFinite(y) THEN Inf(1 - y[2])
            ELSE << "float", 1 - y[2], y[3], y[4] >>)

\* round(x, 2): the decimal of 2 places nearest to x, the even one of two
\* equally near, and then the double nearest to that decimal.  A float with
\* no binary digit after the point is its own rounding, as are the
\* infinities and not-a-number.
FRound2(x) ==
    IF ~IsFinite(x) \/ IsZero(x) \/ x[3] >= 0 THEN x
    ELSE DivToFloat(x[2], RoundShift(MulAdd(x[4], 100, 0), -x[3], FALSE), 100)

\* random.random(): the output taken, and the generator's state after it.
RandomRandom(state) ==
    [value |-> RoundToFloat(0, MT42[state.pos + 1], -MantBits, FALSE),
     state |-> [state EXCEPT !.pos = @ + 1]]

\* random.uniform(a, b) = a + (b - a) * random(), for the output r.
Uniform(a, b, r) == FAdd(a, FMul(FSub(b, a), r))

\* The least int n for which n / 100 raises OverflowError: int / int is the
\* quotient correctly rounded to a float, and raises when that is 2^1024 or
\* more, so from 100 * (2^1024 - 2^970) on.  Its 311 decimal digits:
OverflowFrom ==
    << 1, 7, 9, 7, 6, 9, 3, 1, 3, 4, 8, 6, 2, 3, 1, 5, 8, 0, 7, 9, 3, 7, 2, 8, 9, 7, 1, 4, 0, 5, 3, 0,
       3, 4, 1, 5, 0, 7, 9, 9, 3, 4, 1, 3, 2, 7, 1, 0, 0, 3, 7, 8, 2, 6, 9, 3, 6, 1, 7, 3, 7, 7, 8, 9,
       8, 0, 4, 4, 4, 9, 6, 8, 2, 9, 2, 7, 6, 4, 7, 5, 0, 9, 4, 6, 6, 4, 9, 0, 1, 7, 9, 7, 7, 5, 8, 7,
       2, 0, 7, 0, 9, 6, 3, 3, 0, 2, 8, 6, 4, 1, 6, 6, 9, 2, 8, 8, 7, 9, 1, 0, 9, 4, 6, 5, 5, 5, 5, 4,
       7, 8, 5, 1, 9, 4, 0, 4, 0, 2, 6, 3, 0, 6, 5, 7, 4, 8, 8, 6, 7, 1, 5, 0, 5, 8, 2, 0, 6, 8, 1, 9,
       0, 8, 9, 0, 2, 0, 0, 0, 7, 0, 8, 3, 8, 3, 6, 7, 6, 2, 7, 3, 8, 5, 4, 8, 4, 5, 8, 1, 7, 7, 1, 1,
       5, 3, 1, 7, 6, 4, 4, 7, 5, 7, 3, 0, 2, 7, 0, 0, 6, 9, 8, 5, 5, 5, 7, 1, 3, 6, 6, 9, 5, 9, 6, 2,
       2, 8, 4, 2, 9, 1, 4, 8, 1, 9, 8, 6, 0, 8, 3, 4, 9, 3, 6, 4, 7, 5, 2, 9, 2, 7, 1, 9, 0, 7, 4, 1,
       6, 8, 4, 4, 4, 3, 6, 5, 5, 1, 0, 7, 0, 4, 3, 4, 2, 7, 1, 1, 5, 5, 9, 6, 9, 9, 5, 0, 8, 0, 9, 3,
       0, 4, 2, 8, 8, 0, 1, 7, 7, 9, 0, 4, 1, 7, 4, 4, 9, 7, 7, 9, 2, 0, 0 >>

\* a >= b for two magnitudes (digits, no leading zero).
\* Whether ln / 100 raises OverflowError: whether the magnitude of ln, by
\* its length and then by its first digit that differs, is OverflowFrom or
\* more.
DivOverflows(ln) ==
    LET a == ln.mag
        b == OverflowFrom
    IN  IF Len(a) # Len(b) THEN Len(a) > Len(b)
        ELSE IF a = b THEN TRUE
        ELSE LET k == CHOOSE i \in 1..Len(a) :
                          a[i] # b[i] /\ \A j \in 1..(i - 1) : a[j] = b[j]
             IN  a[k] > b[k]

\* ln / 100 for an int ln for which it does not raise.
IntOver100(ln) == DivToFloat(IF ln.neg THEN 1 ELSE 0, BigFromDigits(ln.mag), 100)

\* round(random.uniform(1000, 5000) * (1 + ln / 100), 2), r being the
\* output of random.random().
ValueToday(r, ln) ==
    FRound2(FMul(Uniform(FromNat(1000), FromNat(5000), r),
                 FAdd(FromNat(1), IntOver100(ln))))

\* The floats of the literals 0.9 and 1.1.
NineTenths == DivToFloat(0, BigFromNat(9), 10)

ElevenTenths == DivToFloat(0, BigFromNat(11), 10)

\* round(value_today * random.uniform(0.9, 1.1), 2)
ValuePrev(value_today, r) == FRound2(FMul(value_today, Uniform(NineTenths, ElevenTenths, r)))

\* round(value_today - value_prev, 2)
Delta(value_today, value_prev) == FRound2(FSub(value_today, value_prev))

EmptyStr == << >>

(***************************************************************************)
(* RunRequest and its validators.  A validator's outcome is                *)
(* [ok, value, msg]: the value it returns, or the message of the           *)
(* ValueError it raises.                                                   *)
(***************************************************************************)
Accept(v) == [ok |-> TRUE, value |-> v, msg |-> ""]

Reject(m) == [ok |-> FALSE, value |-> NoneValue, msg |-> m]

validate_from_date(v) ==
    IF ~Raised(Strptime(StrUpper(v)))
    THEN Accept(StrUpper(v))
    ELSE Reject("from_date must be DDMMMYYYY, e.g., 31AUG2019")

validate_to_date(v) ==
    IF v = NoneValue \/ v = EmptyStr THEN Accept(NoneValue)
    ELSE IF ~Raised(Strptime(StrUpper(v)))
    THEN Accept(StrUpper(v))
    ELSE Reject("to_date must be DDMMMYYYY, e.g., 31JUL2019")

\* [p.strip() for p in v.split(',') if p.strip()]
StrippedParts(v) ==
    LET all == Split(v, ",")
        NonEmpty(p) == p # EmptyStr
    IN  SelectSeq([i \in 1..Len(all) |-> Strip(all[i])], NonEmpty)

\* As validate_lines, checking and returning only what the parts hold in
\* reverse order.
validate_lines_reversed(v, py) ==
    LET parts == StrippedParts(v)
        back  == [i \in 1..Len(parts) |-> parts[Len(parts) + 1 - i]]
    IN  IF parts # << >> /\ \A i \in 1..Len(parts) : PyInt(parts[i], py).ok
        THEN Accept(Join(back, ","))
        ELSE Reject("lines must be comma-separated integers, e.g., '6,17'")

\* As validate_lines, converting only the first part.
validate_lines_first(v, py) ==
    LET parts == StrippedParts(v)
    IN  IF parts # << >> /\ PyInt(parts[1], py).ok
        THEN Accept(Join(parts, ","))
        ELSE Reject("lines must be comma-separated integers, e.g., '6,17'")

validate_lines(v, py) ==
    LET parts == StrippedParts(v)
    IN  IF parts # << >> /\ \A i \in 1..Len(parts) : PyInt(parts[i], py).ok
        THEN Accept(Join(parts, ","))
        ELSE Reject("lines must be comma-separated integers, e.g., '6,17'")

\* As validate_country, without the check of the length.
validate_country_any(v) ==
    LET c == StrUpper(Strip(v))
    IN  IF c # EmptyStr
        THEN Accept(c)
        ELSE Reject("country must be ISO code like 'SG' or 'SGP'")

validate_country(v) ==
    LET c == StrUpper(Strip(v))
    IN  IF c # EmptyStr /\ Len(c) \in {2, 3}
        THEN Accept(c)
        ELSE Reject("country must be ISO code like 'SG' or 'SGP'")

\* RunRequest(**body) on the interpreter py: every field is validated, in the
\* order of declaration; a to_date that is absent (None) is not given to its
\* validator.
Validated(body, py) ==
    [from_date |-> validate_from_date(body.from_date),
     to_date   |-> IF body.to_date = NoneValue THEN Accept(NoneValue)
                   ELSE validate_to_date(body.to_date),
     lines     |-> validate_lines(body.lines, py),
     country   |-> validate_country(body.country)]

\* The errors of the fields that failed, in field order, given the
\* validators' outcomes v.
ValidationErrors(v) ==
    LET Failed(f) == ~v[f].ok
        failed == SelectSeq(<< "from_date", "to_date", "lines", "country" >>, Failed)
    IN  [i \in 1..Len(failed) |-> [loc |-> failed[i], msg |-> v[failed[i]].msg]]

\* The RunRequest handed to the handler when no field failed.
Payload(v) == [f \in DOMAIN v |-> v[f].value]

(***************************************************************************)
(* run_job: the handler of POST /run.                                      *)
(***************************************************************************)
\* bool(v) of None, a str or a float.
Truthy(v) == v # NoneValue /\ v # EmptyStr /\ ~IsZero(v)

\* One row of the response (lines 144-154).
MakeRow(country, ln, report_date, prev_date, value_today, value_prev) ==
    [COUNTRY     |-> country,
     LINE        |-> ln,
     REPORT_DATE |-> Strftime(report_date),
     PREV_DATE   |-> IF prev_date # NoneValue THEN Strftime(prev_date) ELSE EmptyStr,
     VALUE       |-> value_today,
     PREV_VALUE  |-> IF value_prev # NoneValue THEN value_prev ELSE EmptyStr,
     DELTA       |-> IF Truthy(value_prev) THEN Delta(value_today, value_prev)
                     ELSE EmptyStr]

\* The text of the first conversion of lines 129-133 that raised, << >> when
\* none did.
FirstError(report_date, prev_date, ints) ==
    IF Raised(report_date) THEN report_date[2]
    ELSE IF Raised(prev_date) THEN prev_date[2]
    ELSE IF \E i \in 1..Len(ints) : ~ints[i].ok
    THEN ints[CHOOSE i \in 1..Len(ints) :
                  ~ints[i].ok /\ \A j \in 1..(i - 1) : ints[j].ok].msg
    ELSE << >>

\* Lines 129-134 given the converted values; ok = FALSE when one of the
\* conversions raised, msg then being str(e).
Inputs(report_date, prev_date, ints, country) ==
    [ok |-> /\ ~Raised(report_date)
            /\ ~Raised(prev_date)
            /\ \A i \in 1..Len(ints) : ints[i].ok,
     msg          |-> FirstError(report_date, prev_date, ints),
     report_date  |-> report_date,
     prev_date    |-> prev_date,
     line_numbers |-> [i \in 1..Len(ints) |-> [neg |-> ints[i].neg, mag |-> ints[i].mag]],
     country      |-> country]

IntsOf(parts, py) == [i \in 1..Len(parts) |-> PyInt(parts[i], py)]

\* The inputs as the handler parses them (lines 129-134) on the interpreter
\* py.
ParsedInputs(payload, py) ==
    Inputs(Strptime(payload.from_date),
           IF payload.to_date # NoneValue /\ payload.to_date # EmptyStr
           THEN Strptime(payload.to_date) ELSE NoneValue,
           IntsOf(StrippedParts(payload.lines), py),
           payload.country)

\* Line 140 for the line number ln, d being what random.random() gave.
\* random.uniform(1000, 5000) is called before ln / 100 is evaluated, so a
\* failing evaluation has taken one output; msg is then str(e) of the
\* OverflowError.  The value is a float, an infinity when the product is
\* beyond the greatest double.
ValueOutcome(ln, d) ==
    IF DivOverflows(ln)
    THEN [ok |-> FALSE, value |-> NoneValue,
          msg |-> << "integer division result too large for a float" >>,
          rng |-> d.state]
    ELSE [ok |-> TRUE, value |-> ValueToday(d.value, ln), msg |-> << >>,
          rng |-> d.state]

ValueStep(ln, g) == ValueOutcome(ln, RandomRandom(g))

\* Lines 141-143: value_prev, and the generator's state afterwards.
PrevOutcome(value_today, d) ==
    [value |-> ValuePrev(value_today, d.value), rng |-> d.state]

\* As HasPrev, whatever the previous date.
HasPrevAlways(prev_date) == TRUE

\* `if prev_date` on line 142: a datetime is true, None is not.
HasPrev(prev_date) == prev_date # NoneValue

PrevStep(prev_date, value_today, g) ==
    IF HasPrev(prev_date)
    THEN PrevOutcome(value_today, RandomRandom(g))
    ELSE [value |-> NoneValue, rng |-> g]

\* The loop of lines 139-154 from the generator state g, with the rows built
\* so far, when no other thread uses the generator during the loop.
RECURSIVE RowLoop(_, _, _, _)
AfterPrev(inp, lns, rows, value_today, p) ==
    RowLoop(inp, Tail(lns), p.rng,
            Append(rows, MakeRow(inp.country, Head(lns), inp.report_date,
                                 inp.prev_date, value_today, p.value)))

AfterValue(inp, lns, rows, v) ==
    IF v.ok
    THEN AfterPrev(inp, lns, rows, v.value, PrevStep(inp.prev_date, v.value, v.rng))
    ELSE [ok |-> FALSE, rows |-> << >>, msg |-> v.msg, rng |-> v.rng]

RowLoop(inp, lns, g, rows) ==
    IF lns = << >> THEN [ok |-> TRUE, rows |-> rows, msg |-> << >>, rng |-> g]
    ELSE AfterValue(inp, lns, rows, ValueStep(Head(lns), g))

\* Lines 136-156 on the parsed inputs, run from the first line to the last
\* with no other thread using the generator in between.
Generate(inp, g) ==
    IF inp.ok
    THEN RowLoop(inp, inp.line_numbers, RandomSeed(g, 42), << >>)
    ELSE [ok |-> FALSE, rows |-> << >>, msg |-> inp.msg, rng |-> g]

\* The body of run_job on a validated payload, run without interruption on
\* the interpreter py with the shared generator in state g: the outcome and
\* the generator's state afterwards.
RunJobBody(payload, g, py) == Generate(ParsedInputs(payload, py), g)

\* Line 156: return {"rows": rows}.
Rows(rows) == [status |-> 200, rows |-> rows, detail |-> << >>]

\* The response FastAPI sends for what the handler returned.  The JSON
\* encoder writes a str and a finite float; an infinity and not-a-number are
\* out of range, its ValueError is not the handler's to catch, and FastAPI
\* answers 500.
Serialized(resp) ==
    LET JsonCompliant(v) == v = EmptyStr \/ IsFinite(v)
    IN  IF \A i \in 1..Len(resp.rows) :
               /\ JsonCompliant(resp.rows[i].VALUE)
               /\ JsonCompliant(resp.rows[i].PREV_VALUE)
               /\ JsonCompliant(resp.rows[i].DELTA)
        THEN resp
        ELSE [status |-> 500, rows |-> << >>, detail |-> << "Internal Server Error" >>]

\* Line 159: HTTPException(status_code=400, detail=str(e)).
BadRequest(msg) == [status |-> 400, rows |-> << >>, detail |-> msg]

\* FastAPI's answer to a RunRequest that failed validation: status 422 and
\* the errors of the fields.
Unprocessable(v) == [status |-> 422, rows |-> << >>, detail |-> ValidationErrors(v)]

WithRng(r, g) == [status |-> r.status, rows |-> r.rows, detail |-> r.detail, rng |-> g]

\* Lines 156-159: the rows as FastAPI sends them, or the HTTPException.
HandlerResponse(out) ==
    IF out.ok THEN WithRng(Serialized(Rows(out.rows)), out.rng)
    ELSE WithRng(BadRequest(out.msg), out.rng)

\* FastAPI builds RunRequest from the body before it calls run_job, and
\* answers a failed validation itself.
Respond(v, g, py) ==
    IF \E f \in DOMAIN v : ~v[f].ok
    THEN WithRng(Unprocessable(v), g)
    ELSE HandlerResponse(RunJobBody(Payload(v), g, py))

\* The HTTP response to a POST /run handled alone on the interpreter py, and
\* the generator's state afterwards.
RunResponse(body, g, py) == Respond(Validated(body, py), g, py)

(***************************************************************************)
(* test_database: the handler of GET /test.  What it finds is given as a   *)
(* record:                                                                 *)
(*   import_   "ImportError", "Exception" or "ok": the outcome of          *)
(*             `from database import db`;                                  *)
(*   db        whether db is not None;   has_name  hasattr(db, 'name');    *)
(*   listing   "ok" or "Exception": db.list_collection_names();            *)
(*   names     the collection names;     error     str(e) of an exception; *)
(*   url, name whether DATABASE_URL / DATABASE_NAME are set and not empty. *)
(* The fixed texts are given without their leading symbol; a text built    *)
(* with an f-string is the pair of its fixed part and the inserted str.    *)
(***************************************************************************)
\* As Slice, without the limit.
SliceAll(seq, n) == seq

\* seq[:n]
Slice(seq, n) == SubSeq(seq, 1, Min(n, Len(seq)))

\* The response dict as first built (lines 76-83).
InitialDiagnostic ==
    [backend           |-> << "Running" >>,
     database          |-> << "Not Available" >>,
     database_url      |-> NoneValue,
     database_name     |-> NoneValue,
     connection_status |-> << "Not Connected" >>,
     collections       |-> << >>]

\* Lines 89-103: the import succeeded.
AfterImport(response, found) ==
    IF found.db
    THEN LET connected ==
                 [response EXCEPT
                     !.database = << "Available" >>,
                     !.database_url = << "Configured" >>,
                     !.database_name = IF found.has_name THEN << "db.name" >>
                                       ELSE << "Connected" >>,
                     !.connection_status = << "Connected" >>]
         IN  IF found.listing = "ok"
             THEN [connected EXCEPT
                      !.collections = Slice(found.names, 10),
                      !.database = << "Connected & Working" >>]
             ELSE [connected EXCEPT
                      !.database = << "Connected but Error: ", Slice(found.error, 50) >>]
    ELSE [response EXCEPT !.database = << "Available but not initialized" >>]

\* Lines 85-108: the try statement.
AfterProbe(response, found) ==
    IF found.import_ = "ok" THEN AfterImport(response, found)
    ELSE IF found.import_ = "ImportError"
    THEN [response EXCEPT
             !.database = << "Database module not found (run enable-database first)" >>]
    ELSE [response EXCEPT !.database = << "Error: ", Slice(found.error, 50) >>]

\* Lines 110-115: the environment variables, then the return.
TestDatabaseBody(found) ==
    [AfterProbe(InitialDiagnostic, found) EXCEPT
        !.database_url = IF found.url THEN << "Set" >> ELSE << "Not Set" >>,
        !.database_name = IF found.name THEN << "Set" >> ELSE << "Not Set" >>]

(***************************************************************************)
(* The inputs the model is run on.                                         *)
(***************************************************************************)
\* The most comma-separated parts of a lines input built from LineParts.
MaxTokens == 2

\* The most collections the database lists.
MaxCollections == 11

\* A line number of 308 digits: ln / 100 is a float, and its product with
\* any value of random.uniform(1000, 5000) is beyond the greatest.
HugeToken == << "1" >> \o Repeat("0", 307)

\* The from_date inputs: a day, a month and a year, and the empty str.
FromDates ==
    LET DayTexts ==
            { << "3", "1" >>, << "3", "0" >>, << "2", "9" >>, << "0", "1" >>, << "1" >>,
              << " ", "1" >>, << "0", "0" >>, << "3", "2" >>, << >>, << "1", ArabicThree >> }
        MonthTexts ==
            { << "A", "U", "G" >>, << "a", "u", "g" >>, << "F", "e", "b" >>,
              << "S", "E", "P" >>, << "A", "U" >>, << LongS, "e", "p" >> }
        YearTexts ==
            { << "2", "0", "1", "9" >>, << "2", "0", "2", "0" >>, << "0", "0", "0", "0" >>,
              << "1", "9" >>, << "2", "0", "1", "9", "9" >> }
    IN  { d \o m \o y : d \in DayTexts, m \in MonthTexts, y \in YearTexts } \cup { << >> }

ToDates ==
    { NoneValue,
      << >>,
      << "3", "1", "J", "U", "L", "2", "0", "1", "9" >>,
      << " ", "1", "j", "u", "l", "2", "0", "1", "9" >>,
      << "3", "1", "J", "U", "N", "2", "0", "1", "9" >> }

\* The parts that lines inputs of up to MaxTokens parts are built from.
LineParts ==
    { << "6" >>, << "-", "1", "0", "0" >>, << " ", "1", "7", "\t" >>, << "x" >>, << >> }

\* The parts tried alone and beside one other part; the last ones are the
\* least line number for which ln / 100 overflows and a number of one digit
\* more than int() converts.
SpecialParts ==
    { << "1", "_", "0" >>, << "1", "_", "_", "0" >>, << ArabicThree >>,
      << "\n", "6", FileSeparator >>, << "9", "9", "9", "9", "9", "9" >>,
      HugeToken, << "-" >> \o HugeToken,
      [i \in 1..Len(OverflowFrom) |-> DigitChars[OverflowFrom[i] + 1]],
      Repeat("1", IntMaxStrDigits + 1) }

Countries ==
    { << "S", "G" >>, << "s", "g" >>, << " ", "s", "g", "p", " " >>,
      << "S" >>, << "S", "G", "P", "X" >>, << >>,
      << "S", "G", "\n" >>, << SharpS >>, << SharpS, "g", "p" >>,
      << "s", SmallEAcute >> }

\* The lines of up to MaxTokens of the parts.
LinesOver(parts) == { Join(ps, ",") : ps \in UNION { [1..k -> parts] : k \in 0..MaxTokens } }

\* Each special part alone, after 6 and before 6.
SpecialLines ==
    UNION { { s, << "6", "," >> \o s, s \o << ",", "6" >> } : s \in SpecialParts }

\* The bodies of POST /run: every from_date, every to_date with a few lines,
\* every lines without and with a to_date, and every country with a valid
\* and an invalid lines.
Bodies ==
    [from_date : FromDates, to_date : { NoneValue },
     lines : { << "6" >> }, country : { << "S", "G" >> }]
    \cup
    [from_date : { << "3", "1", "a", "u", "g", "2", "0", "1", "9" >> },
     to_date : ToDates,
     lines : { << "6", ",", "1", "7" >>, << "-", "1", "0", "0" >>, << "x" >>, << >> },
     country : { << "S", "G" >> }]
    \cup
    [from_date : { << "3", "1", "a", "u", "g", "2", "0", "1", "9" >> },
     to_date : { NoneValue, << "3", "1", "J", "U", "L", "2", "0", "1", "9" >> },
     lines : LinesOver(LineParts) \cup SpecialLines, country : { << "S", "G" >> }]
    \cup
    [from_date : { << "3", "1", "a", "u", "g", "2", "0", "1", "9" >> },
     to_date : { NoneValue },
     lines : { << "6" >>, << "x" >> }, country : Countries]

\* The bodies of the POST /run requests handled beside the others.
BesideBodies ==
    [from_date : { << "3", "1", "A", "U", "G", "2", "0", "1", "9" >> },
     to_date   : { << "3", "1", "J", "U", "L", "2", "0", "1", "9" >> },
     lines     : { << "6" >> },
     country   : { << "S", "G" >> }]

\* The bodies sent more than once: all accepted, with and without to_date,
\* the lines 6 / 6,17 / 6,17,6 and so on, of up to MaxTokens parts.
RepeatBodies ==
    [from_date : { << "3", "1", "A", "U", "G", "2", "0", "1", "9" >> },
     to_date   : { NoneValue, << "3", "1", "J", "U", "L", "2", "0", "1", "9" >> },
     lines     : { Join([i \in 1..k |-> IF i % 2 = 1 THEN << "6" >> ELSE << "1", "7" >>],
                        ",") : k \in 1..MaxTokens },
     country   : { << "S", "G" >> }]

\* What GET /test can find.
Findings ==
    { f \in [import_ : { "ImportError", "Exception", "ok" }, db : BOOLEAN,
             has_name : BOOLEAN, listing : { "ok", "Exception" },
             names : { [i \in 1..n |-> NatToStr(i)] :
                          n \in { 0, 1, MaxCollections - 1, MaxCollections } },
             error : { Repeat("e", 3), Repeat("e", 60) },
             url : BOOLEAN, name : BOOLEAN] :
        \* what is not looked at is held at one value
        /\ f.import_ # "ok" => ~f.db
        /\ ~f.db => ~f.has_name /\ f.listing = "ok" /\ f.names = << >>
        /\ f.listing # "ok" => f.names = << >>
        /\ (f.import_ # "Exception" /\ f.listing = "ok") => f.error = Repeat("e", 3) }

(***************************************************************************)
(* The server.  FastAPI calls a handler declared with def on a thread of   *)
(* its worker pool, so two requests are handled at the same time, and two  *)
(* POST /run requests run run_job at the same time on the one random       *)
(* module.  A thread can be switched out between any two calls, so each    *)
(* call of run_job on the shared generator is a step of its own:           *)
(* random.seed (line 137) and the random.uniform of lines 140 and 142.     *)
(* The other handlers touch nothing that is shared and are one step.       *)
(*   rng      the state of the random module's shared generator;           *)
(*   threads  for each thread, where it is (pc: idle, in run_job before    *)
(*            the seed, a value or a previous value, before the return, or *)
(*            done, the response made), its request, the outcome of each   *)
(*            field's validator, the parsed inputs, the line numbers left, *)
(*            the rows built, the value_today just computed, and its       *)
(*            response (out);                                              *)
(*   ref      an earlier POST /run exchange, kept to compare a later one   *)
(*            with, and the requests answered since.                       *)
(***************************************************************************)
VARIABLES rng, threads, ref

vars == << rng, threads, ref >>

\* The threads of the worker pool.
Handlers == { "A", "B" }

\* A thread of the pool with no request.
IdleThread ==
    [pc |-> "idle", req |-> [route |-> "none", body |-> NoneValue],
     validated |-> NoneValue, inp |-> NoneValue,
     lns |-> << >>, rows |-> << >>, value |-> NoneValue, out |-> [status |-> 0]]

Init ==
    /\ rng = RngAtImport
    /\ threads = [h \in Handlers |-> IdleThread]
    /\ ref = [set |-> FALSE, body |-> NoneValue, rows |-> << >>, since |-> {}]

\* A thread that has answered the request of route and body with out.
Answered(route, body, out) ==
    [IdleThread EXCEPT !.pc = "done", !.req = [route |-> route, body |-> body],
                       !.out = out]

\* GET /
ReadRoot(h) ==
    /\ threads[h].pc = "idle"
    /\ threads' = [threads EXCEPT ![h] =
          Answered("GET /", NoneValue,
                   [status |-> 200, message |-> "Hello from FastAPI Backend!"])]
    /\ UNCHANGED << rng, ref >>

\* GET /api/hello
Hello(h) ==
    /\ threads[h].pc = "idle"
    /\ threads' = [threads EXCEPT ![h] =
          Answered("GET /api/hello", NoneValue,
                   [status |-> 200, message |-> "Hello from the backend API!"])]
    /\ UNCHANGED << rng, ref >>

\* GET /test
TestDatabase(h, found) ==
    /\ threads[h].pc = "idle"
    /\ threads' = [threads EXCEPT ![h] =
          Answered("GET /test", found, [status |-> 200, json |-> TestDatabaseBody(found)])]
    /\ UNCHANGED << rng, ref >>

\* The thread after lines 129-134.
Parsed(t, inp) ==
    IF inp.ok
    THEN [t EXCEPT !.pc = "seed", !.inp = inp, !.lns = inp.line_numbers]
    ELSE [t EXCEPT !.pc = "done", !.out = BadRequest(inp.msg)]

\* The thread once FastAPI has built RunRequest and, if no field failed,
\* called run_job, on the interpreter py.
Started(t, v, py) ==
    IF \E f \in DOMAIN v : ~v[f].ok
    THEN [t EXCEPT !.pc = "done", !.validated = v, !.out = Unprocessable(v)]
    ELSE Parsed([t EXCEPT !.validated = v], ParsedInputs(Payload(v), py))

\* POST /run up to line 134, on the interpreter py.
Start(h, body, py) ==
    /\ threads[h].pc = "idle"
    /\ threads' = [threads EXCEPT ![h] =
          Started([IdleThread EXCEPT !.req = [route |-> "POST /run", body |-> body]],
                  Validated(body, py), py)]
    /\ UNCHANGED << rng, ref >>

\* Lines 137 and 138.
Seed(h) ==
    /\ threads[h].pc = "seed"
    /\ rng' = RandomSeed(rng, 42)
    /\ threads' = [threads EXCEPT ![h].rows = << >>,
                                  ![h].pc = IF threads[h].lns = << >> THEN "return"
                                            ELSE "value"]
    /\ UNCHANGED ref

\* The thread with the row of its first line number left appended.
WithRow(t, value_today, value_prev) ==
    [t EXCEPT !.rows = Append(@, MakeRow(t.inp.country, Head(t.lns), t.inp.report_date,
                                         t.inp.prev_date, value_today, value_prev)),
              !.lns = Tail(@),
              !.value = NoneValue,
              !.pc = IF Tail(t.lns) = << >> THEN "return" ELSE "value"]

\* The thread after line 140 with outcome v; without a previous date the
\* row is complete.
Valued(t, v) ==
    IF ~v.ok
    THEN [t EXCEPT !.pc = "done", !.out = BadRequest(v.msg)]
    ELSE IF ~HasPrev(t.inp.prev_date)
    THEN WithRow(t, v.value, NoneValue)
    ELSE [t EXCEPT !.pc = "prev", !.value = v.value]

\* Line 140, v being its outcome.
DrawValue(h, v) ==
    /\ threads[h].pc = "value"
    /\ rng' = v.rng
    /\ threads' = [threads EXCEPT ![h] = Valued(@, v)]
    /\ UNCHANGED ref

\* Lines 141-154 with a previous date, p being the outcome of line 142.
DrawPrev(h, p) ==
    /\ threads[h].pc = "prev"
    /\ rng' = p.rng
    /\ threads' = [threads EXCEPT ![h] = WithRow(@, @.value, p.value)]
    /\ UNCHANGED ref

\* Line 156, and the response FastAPI makes of the rows.
Return(h) ==
    /\ threads[h].pc = "return"
    /\ threads' = [threads EXCEPT ![h].pc = "done",
                                  ![h].out = Serialized(Rows(threads[h].rows))]
    /\ UNCHANGED << rng, ref >>

\* What an answered request is, seen from the exchange kept in ref.
Kind(req) ==
    IF req.route # "POST /run" THEN req.route
    ELSE IF req.body = ref.body THEN "POST /run again"
    ELSE "POST /run"

\* The response is sent and the thread goes back to the pool; with keep, the
\* first POST /run exchange that returned rows is the one kept in ref.
Finish(h, keep) ==
    /\ threads[h].pc = "done"
    /\ threads' = [threads EXCEPT ![h] = IdleThread]
    /\ ref' = IF ref.set
              THEN [ref EXCEPT !.since = @ \cup { Kind(threads[h].req) }]
              ELSE IF keep /\ threads[h].req.route = "POST /run"
                           /\ threads[h].out.status = 200
              THEN [set |-> TRUE, body |-> threads[h].req.body,
                    rows |-> threads[h].out.rows, since |-> {}]
              ELSE ref
    /\ UNCHANGED rng

\* The steps of run_job on thread h.
RunJob(h) ==
    \/ Seed(h)
    \/ threads[h].pc = "value"
          /\ DrawValue(h, ValueStep(Head(threads[h].lns), rng))
    \/ threads[h].pc = "prev"
          /\ DrawPrev(h, PrevStep(threads[h].inp.prev_date, threads[h].value, rng))
    \/ Return(h)

\* Each thread is followed through one request: thread A is given every
\* request of the input sets, and thread B handles a POST /run beside it,
\* before, during or after it.
Next ==
    \/ ReadRoot("A")
    \/ Hello("A")
    \/ \E found \in Findings : TestDatabase("A", found)
    \/ \E body \in Bodies, py \in Interpreters : Start("A", body, py)
    \/ \E body \in BesideBodies, py \in Interpreters : Start("B", body, py)
    \/ \E h \in Handlers : RunJob(h)

Spec == Init /\ [][Next]_vars

\* No request is being handled.
Quiet == \A h \in Handlers : threads[h].pc = "idle"

\* The requests arrive one after the other: each is sent when the one
\* before has been answered.
NextRepeat ==
    \/ \E h \in Handlers : Quiet /\ ReadRoot(h)
    \/ \E h \in Handlers : Quiet /\ Hello(h)
    \/ \E h \in Handlers :
          \E found \in { f \in Findings : f.import_ = "ImportError" /\ f.url /\ f.name } :
             Quiet /\ TestDatabase(h, found)
    \/ \E h \in Handlers, body \in RepeatBodies, py \in Interpreters :
          Quiet /\ Start(h, body, py)
    \/ \E h \in Handlers : RunJob(h)
    \/ \E h \in Handlers, keep \in BOOLEAN : Finish(h, keep)

SpecRepeat == Init /\ [][NextRepeat]_vars

(***************************************************************************)
(* The claims.  Each is about the requests that have been answered: the    *)
(* threads at "done", whose request and response are still in place.       *)
(***************************************************************************)
\* Thread h has answered a POST /run.
IsRun(h) == threads[h].pc = "done" /\ threads[h].req.route = "POST /run"

\* A token that is an integer for int(): an optional sign, then decimal
\* digits, no more than int() converts, single underscores allowed between
\* two digits.
LooksInteger(t) ==
    LET digits == IF t # << >> /\ t[1] \in { "+", "-" } THEN Tail(t) ELSE t
    IN  /\ digits # << >>
        /\ \A i \in 1..Len(digits) :
              \/ IsDigit(digits[i])
              \/ /\ digits[i] = "_"
                 /\ 1 < i /\ i < Len(digits)
                 /\ IsDigit(digits[i - 1]) /\ IsDigit(digits[i + 1])
        /\ Len(SelectSeq(digits, IsDigit)) <= IntMaxStrDigits

AllInteger(lines) ==
    /\ StrippedParts(lines) # << >>
    /\ \A i \in 1..Len(StrippedParts(lines)) : LooksInteger(StrippedParts(lines)[i])

\* A body with a date text that strptime does not parse once in upper case.
BadDates(body) ==
    LET Unparsable(text) == Raised(Strptime(StrUpper(text)))
    IN  \/ Unparsable(body.from_date)
        \/ body.to_date # NoneValue /\ body.to_date # EmptyStr
               /\ Unparsable(body.to_date)

\* A body with an invalid field, the country by its length as sent.
InvalidAsStated(body) ==
    \/ BadDates(body)
    \/ ~AllInteger(body.lines)
    \/ Len(body.country) \notin { 2, 3 }

\* A body with an invalid field, the country by its length once trimmed and
\* in upper case.
InvalidField(body) ==
    \/ BadDates(body)
    \/ ~AllInteger(body.lines)
    \/ Len(StrUpper(Strip(body.country))) \notin { 2, 3 }

\* C1: a POST /run with the same body as an earlier POST /run that returned
\* rows returns the same rows (VALUE, PREV_VALUE and DELTA included),
\* whatever requests were completely handled before or between them.
C1_SameBodySameRows ==
    \A h \in Handlers :
        (IsRun(h) /\ ref.set /\ threads[h].req.body = ref.body) =>
            LET resp == threads[h].out
            IN  /\ resp.status = 200
                /\ Len(resp.rows) = Len(ref.rows)
                /\ \A i \in 1..Len(resp.rows) :
                      /\ resp.rows[i].VALUE = ref.rows[i].VALUE
                      /\ resp.rows[i].PREV_VALUE = ref.rows[i].PREV_VALUE
                      /\ resp.rows[i].DELTA = ref.rows[i].DELTA

\* A body with two rows and a previous date is answered again after every
\* other route, a POST /run with another body and one with the same body
\* were handled.
C1_Witness ==
    \E h \in Handlers :
        /\ IsRun(h) /\ ref.set /\ threads[h].req.body = ref.body
        /\ threads[h].req.body.to_date # NoneValue
        /\ Len(threads[h].out.rows) = 2
        /\ ref.since = { "GET /", "GET /api/hello", "GET /test", "POST /run",
                         "POST /run again" }

\* C2: a POST /run handled while another one is, its seed and draws
\* interleaved with the other's in any order, returns what it returns when
\* it is handled alone.
C2_AsIfAlone ==
    \A h \in Handlers :
        IsRun(h) =>
            \A py \in Interpreters :
                LET alone == RunResponse(threads[h].req.body, RngAtImport, py)
                IN  threads[h].out =
                        [status |-> alone.status, rows |-> alone.rows,
                         detail |-> alone.detail]

\* C3: a POST /run that passes validation returns one row per integer token
\* of lines, in the order given: row i holds the i-th integer as LINE and the
\* trimmed upper-case country as COUNTRY.
C3_OneRowPerToken ==
    \A h \in Handlers :
        (IsRun(h) /\ threads[h].out.status # 422) =>
            LET req  == threads[h].req
                resp == threads[h].out
            IN  /\ resp.status = 200
                /\ Len(resp.rows) = Len(StrippedParts(req.body.lines))
                /\ \A i \in 1..Len(resp.rows) :
                      /\ resp.rows[i].LINE = IntOf(StrippedParts(req.body.lines)[i])
                      /\ resp.rows[i].COUNTRY = StrUpper(Strip(req.body.country))

\* C4: in every row, DELTA is VALUE - PREV_VALUE, to 2 places, whenever the
\* row has a PREV_VALUE, and DELTA is empty only when PREV_VALUE is empty.
C4_DeltaIsDifference ==
    \A h \in Handlers :
        (IsRun(h) /\ threads[h].out.status = 200) =>
            \A i \in 1..Len(threads[h].out.rows) :
                LET row == threads[h].out.rows[i]
                IN  /\ row.PREV_VALUE # EmptyStr =>
                          row.DELTA = FRound2(FSub(row.VALUE, row.PREV_VALUE))
                    /\ row.DELTA = EmptyStr => row.PREV_VALUE = EmptyStr

\* C5 as stated: a POST /run with an invalid field (an unparsable date, empty
\* or non-integer lines, a country whose length is not 2 or 3) is answered
\* with status 400 and a message, and with no rows.
C5_InvalidGets400 ==
    \A h \in Handlers :
        (IsRun(h) /\ InvalidAsStated(threads[h].req.body)) =>
            /\ threads[h].out.status = 400
            /\ threads[h].out.detail # << >>
            /\ threads[h].out.rows = << >>

\* C5 as amended: a POST /run with an invalid field (the country by its
\* length once trimmed and in upper case) is answered with status 422 and
\* the message of each failing field's validator, and with no rows.
C5_InvalidGets422 ==
    \A h \in Handlers :
        (IsRun(h) /\ InvalidField(threads[h].req.body)) =>
            LET resp == threads[h].out
            IN  /\ resp.status = 422
                /\ resp.detail # << >>
                /\ \A i \in 1..Len(resp.detail) : resp.detail[i].msg # ""
                /\ resp.rows = << >>

\* Two fields are invalid at once, the country by its length in upper case
\* alone: as sent it has 3 characters.
C5_Witness ==
    \E h \in Handlers :
        /\ IsRun(h) /\ InvalidField(threads[h].req.body)
        /\ Len(threads[h].req.body.country) = 3
        /\ Len(StrUpper(threads[h].req.body.country)) = 4
        /\ Len(threads[h].out.detail) = 2

\* C6: a date that validation accepts, parsed and formatted back, is the
\* upper-cased input, so REPORT_DATE and PREV_DATE of every row are the
\* upper-cased from_date and to_date.
C6_DateRoundTrip ==
    \A h \in Handlers :
        IsRun(h) =>
            LET req  == threads[h].req
                resp == threads[h].out
            IN  /\ threads[h].validated.from_date.ok =>
                      Strftime(Strptime(StrUpper(req.body.from_date)))
                          = StrUpper(req.body.from_date)
                /\ resp.status = 200 =>
                      \A i \in 1..Len(resp.rows) :
                          /\ resp.rows[i].REPORT_DATE = StrUpper(req.body.from_date)
                          /\ (req.body.to_date # NoneValue /\ req.body.to_date # EmptyStr) =>
                                resp.rows[i].PREV_DATE = StrUpper(req.body.to_date)

\* C7 as stated: a lines input with at least one integer token is accepted
\* by its validator, and the validated value keeps the tokens in order.
C7_OneIntegerSuffices ==
    \A h \in Handlers :
        (IsRun(h) /\ \E i \in 1..Len(StrippedParts(threads[h].req.body.lines)) :
                         LooksInteger(StrippedParts(threads[h].req.body.lines)[i])) =>
            /\ threads[h].validated.lines.ok
            /\ Split(threads[h].validated.lines.value, ",")
                   = StrippedParts(threads[h].req.body.lines)

\* C7 as amended: a lines input with at least one token, all of them
\* integers that int() converts, is accepted by its validator, and the
\* validated value keeps the tokens in order.
C7_AllIntegersAccepted ==
    \A h \in Handlers :
        (IsRun(h) /\ AllInteger(threads[h].req.body.lines)) =>
            /\ threads[h].validated.lines.ok
            /\ Split(threads[h].validated.lines.value, ",")
                   = StrippedParts(threads[h].req.body.lines)

\* Two different integer tokens, the input not already in validated form.
C7_Witness ==
    \E h \in Handlers :
        /\ IsRun(h) /\ AllInteger(threads[h].req.body.lines)
        /\ Len(StrippedParts(threads[h].req.body.lines)) = 2
        /\ StrippedParts(threads[h].req.body.lines)[1]
               # StrippedParts(threads[h].req.body.lines)[2]
        /\ threads[h].validated.lines.value # threads[h].req.body.lines

\* C8: a lines input with no token, or with a token that is not an integer
\* for int(), is rejected by its validator: the request is answered by the
\* validation error and run_job makes no row.
C8_BadLinesRejected ==
    \A h \in Handlers :
        (IsRun(h) /\ ~AllInteger(threads[h].req.body.lines)) =>
            LET resp == threads[h].out
            IN  /\ ~threads[h].validated.lines.ok
                /\ resp.status = 422
                /\ resp.rows = << >>
                /\ \E i \in 1..Len(resp.detail) : resp.detail[i].loc = "lines"

\* An integer token is followed by one that is not an integer, the other
\* fields being valid.
C8_Witness ==
    \E h \in Handlers :
        /\ IsRun(h)
        /\ Len(StrippedParts(threads[h].req.body.lines)) = 2
        /\ LooksInteger(StrippedParts(threads[h].req.body.lines)[1])
        /\ ~LooksInteger(StrippedParts(threads[h].req.body.lines)[2])
        /\ Len(threads[h].out.detail) = 1

\* C9: without a to_date (absent or empty), every row has an empty
\* PREV_DATE, PREV_VALUE and DELTA.
C9_NoPrevWithoutToDate ==
    \A h \in Handlers :
        (IsRun(h) /\ (threads[h].req.body.to_date = NoneValue
                         \/ threads[h].req.body.to_date = EmptyStr)) =>
            \A i \in 1..Len(threads[h].out.rows) :
                /\ threads[h].out.rows[i].PREV_DATE = EmptyStr
                /\ threads[h].out.rows[i].PREV_VALUE = EmptyStr
                /\ threads[h].out.rows[i].DELTA = EmptyStr

\* An empty to_date with two rows returned, while the other thread has
\* drawn a previous value.
C9_Witness ==
    \E h \in Handlers :
        /\ IsRun(h) /\ threads[h].req.body.to_date = EmptyStr
        /\ threads[h].out.status = 200 /\ Len(threads[h].out.rows) = 2
        /\ \E k \in Handlers \ { h } :
              /\ threads[k].pc = "return"
              /\ threads[k].inp.prev_date # NoneValue

\* C10: GET /test answers with the six fields whatever it finds, and
\* collections holds nothing or the first 10 names at most.
C10_DiagnosticAlwaysAnswers ==
    \A h \in Handlers :
        (threads[h].pc = "done" /\ threads[h].req.route = "GET /test") =>
            LET resp  == threads[h].out
                found == threads[h].req.body
            IN  /\ resp.status = 200
                /\ DOMAIN resp.json = { "backend", "database", "database_url",
                                        "database_name", "connection_status",
                                        "collections" }
                /\ Len(resp.json.collections) <= 10
                /\ \/ resp.json.collections = << >>
                   \/ resp.json.collections =
                          SubSeq(found.names, 1, Len(resp.json.collections))

\* The database lists more than 10 collections.
C10_Witness ==
    \E h \in Handlers :
        /\ threads[h].pc = "done" /\ threads[h].req.route = "GET /test"
        /\ Len(threads[h].req.body.names) > 10
        /\ Len(threads[h].out.json.collections) = 10
=============================================================================
